---- MODULE Spec2Model ----
(***************************************************************************)
(* Model of the Convex backend of vue-convex-clerk-starter:                *)
(*   convex/helpers.ts  (requireAuth, requireUser, getCurrentUserOptional) *)
(*   convex/users.ts    (getCurrentUser, store)                            *)
(*   convex/notes.ts    (createNote, getNotes, updateNote, deleteNote)     *)
(* Every handler is one action; the tables are the state.  A handler is    *)
(* written as a function from the database and its inputs to its outcome:  *)
(* its result, the database its writes leave, and the list of its writes.  *)
(* The action of the handler applies that function to the current state.   *)
(* users.store is also given as two steps, its lookup and its write, for   *)
(* the behaviours in which calls of store overlap.                         *)
(* The component ConvexProvider.vue, in its two versions, is modelled next *)
(* to the backend: its refs and the Convex client's credentials are state, *)
(* and a run of updateAuth is cut at its two awaits.                       *)
(*                                                                         *)
(* Conventions.                                                            *)
(*  - An optional value (v.optional(..), `T | undefined`, `T | null`) is a *)
(*    set with at most one element: {} is undefined/null, {x} is x.        *)
(*  - A title or content string is kept run-length encoded: a sequence of  *)
(*    runs [ch, n] standing for n copies of the character ch.  trim() and  *)
(*    .length are computed on that encoding.                               *)
(*  - A document id of table users is the row's position in `users` (rows  *)
(*    are never removed); a document id of table notes is drawn from the   *)
(*    counter `noteIds`.                                                   *)
(***************************************************************************)
EXTENDS Integers, Sequences, FiniteSets, TLC

VARIABLES
    users,      \* table users, in insertion order
    notes,      \* table notes, in insertion (_creationTime) order
    noteIds,    \* number of note ids handed out so far
    now,        \* Date.now()
    last,       \* the last call made: function, caller, arguments, result, writes
    inflight,   \* the store calls between their lookup and their write
    clerk,      \* useUser() and useSession(): user, session and their isLoaded
    isReady,    \* ref isReady of ConvexProvider
    authError,  \* ref authError of ConvexProvider
    convexAuth, \* what the Convex client was last told by setAuth or close
    runs,       \* the runs of updateAuth, in the order they were started
    started,    \* number of runs of updateAuth started so far
    synced      \* the users whose storeUser call has resolved

\* last.op stands before last: two calls of different functions are told
\* apart by the name, before their results, values of different kinds, are
\* compared
vars == <<users, notes, noteIds, now, last.op, last, inflight,
          clerk, isReady, authError, convexAuth, runs, started, synced>>

\* the state of the backend and the state of the component
backendVars == <<users, notes, noteIds, now, last, inflight>>
providerVars == <<clerk, isReady, authError, convexAuth, runs, started, synced>>

----------------------------------------------------------------------------
(* Bounds of the model *)

MaxUsers == 3
MaxNoteIds == 2
MaxNotes == 2
MaxNow == 1
MaxCalls == 2
MaxRuns == 3

(* Program constants *)

MaxTitleLen == 200
MaxContentLen == 5000
MaxDuration == 1440

----------------------------------------------------------------------------
(* Optional values *)

Undefined == {}

Some(x) == {x}

Get(o) == CHOOSE x \in o : TRUE

Opt(S) == {Undefined} \cup {Some(x) : x \in S}

\* a ?? b
Coalesce(a, b) == IF a # Undefined THEN Get(a) ELSE b

----------------------------------------------------------------------------
(* Strings, run-length encoded *)

Run(c, k) == [ch |-> c, n |-> k]

IsWhitespace(c) == c \in {" ", "\t", "\n"}

RECURSIVE Length(_)
Length(s) == IF s = <<>> THEN 0 ELSE Head(s).n + Length(Tail(s))

RECURSIVE TrimStart(_)
TrimStart(s) ==
    IF s = <<>> THEN <<>>
    ELSE IF IsWhitespace(Head(s).ch) THEN TrimStart(Tail(s))
    ELSE s

RECURSIVE TrimEnd(_)
TrimEnd(s) ==
    IF s = <<>> THEN <<>>
    ELSE IF IsWhitespace(s[Len(s)].ch) THEN TrimEnd(SubSeq(s, 1, Len(s) - 1))
    ELSE s

Trim(s) == TrimEnd(TrimStart(s))

----------------------------------------------------------------------------
(* Outcomes of a call *)

Ok(v) == [kind |-> "ok", value |-> Some(v), message |-> ""]

OkVoid == [kind |-> "ok", value |-> Undefined, message |-> ""]

Err(m) == [kind |-> "error", value |-> Undefined, message |-> m]

Failed(r) == r.kind = "error"

\* messages of the errors the handlers throw
MsgAuthRequired == "Authentication required"
MsgStoreNoAuth == "Called storeUser without authentication present"
MsgUserNotFound == "User not found in database"
MsgIntegrity == "Database integrity error: Duplicate user found"
MsgUniqueThrew == "unique() query returned more than one result"
MsgTitle == "Title must be between 1 and 200 characters"
MsgContent == "Content must be between 1 and 5000 characters"
MsgDuration == "Duration must be between 0 and 1440 minutes"
MsgNoteNotFound == "Note not found"
MsgUpdateForbidden == "Not authorized to update this note"
MsgDeleteForbidden == "Not authorized to delete this note"
MsgNotAuthenticated == "Not authenticated"
MsgOldUserNotFound == "User not found"

----------------------------------------------------------------------------
(* Storage engine.  A database is [users, notes, noteIds].                 *)

DB == [users |-> users, notes |-> notes, noteIds |-> noteIds]

Rows(table) == {table[i] : i \in DOMAIN table}

\* the rows are left in the order of the table
Reverse_ascending(s) == s

RECURSIVE Reverse(_)
Reverse(s) == IF s = <<>> THEN <<>> ELSE Append(Reverse(Tail(s)), Head(s))

RECURSIVE Where(_, _)
Where(s, S) ==
    IF s = <<>> THEN <<>>
    ELSE IF Head(s) \in S THEN <<Head(s)>> \o Where(Tail(s), S)
    ELSE Where(Tail(s), S)

\* the lookup compares the wrong field with the subject
ByClerkId_email(db, subject) == {u \in Rows(db.users) : u.email = subject}

\* ctx.db.query("users").withIndex("by_clerk_id", q => q.eq("clerkId", subject))
ByClerkId(db, subject) == {u \in Rows(db.users) : u.clerkId = subject}

\* several matching rows do not throw: one of them is returned
Unique_anyRow(rows) ==
    [kind |-> "ok",
     value |-> IF rows = {} THEN {} ELSE {CHOOSE r \in rows : TRUE},
     message |-> ""]

\* .unique(): null, the one row, or a throw when several rows match
Unique(rows) ==
    IF Cardinality(rows) > 1 THEN Err(MsgUniqueThrew)
    ELSE [kind |-> "ok", value |-> rows, message |-> ""]

\* ctx.db.get(id) on table notes
GetNote(db, id) == {n \in Rows(db.notes) : n._id = id}

\* an omitted duration is written as undefined, which removes the field
PatchFields_clearsDuration(n, updates) ==
    [n EXCEPT !.title = Coalesce(updates.title, @),
              !.content = Coalesce(updates.content, @),
              !.billable = Coalesce(updates.billable, @),
              !.duration = updates.duration,
              !.billStatus = Coalesce(updates.billStatus, @)]

\* the fields of ctx.db.patch(id, fields) that are present overwrite
PatchFields(n, updates) ==
    [n EXCEPT !.title = Coalesce(updates.title, @),
              !.content = Coalesce(updates.content, @),
              !.billable = Coalesce(updates.billable, @),
              !.duration = IF updates.duration # Undefined THEN updates.duration ELSE @,
              !.billStatus = Coalesce(updates.billStatus, @)]

\* ctx.db.patch(id, fields) on table notes
PatchNote(db, id, updates) ==
    [db EXCEPT !.notes =
        [i \in DOMAIN db.notes |->
            IF db.notes[i]._id = id THEN PatchFields(db.notes[i], updates)
            ELSE db.notes[i]]]

\* ctx.db.delete(id) on table notes
DeleteNote(db, id) ==
    [db EXCEPT !.notes = Where(db.notes, {n \in Rows(db.notes) : n._id # id})]

\* ctx.db.insert("notes", fields)
InsertNote(db, fields) ==
    [db EXCEPT !.notes = Append(db.notes,
                   [_id |-> db.noteIds + 1,
                    title |-> fields.title,
                    content |-> fields.content,
                    createdBy |-> fields.createdBy,
                    createdAt |-> fields.createdAt,
                    billable |-> fields.billable,
                    duration |-> fields.duration,
                    billStatus |-> fields.billStatus]),
               !.noteIds = db.noteIds + 1]

\* ctx.db.insert("users", fields)
InsertUser(db, fields) ==
    [db EXCEPT !.users = Append(db.users,
                   [_id |-> Len(db.users) + 1,
                    clerkId |-> fields.clerkId,
                    email |-> fields.email,
                    name |-> fields.name,
                    createdAt |-> fields.createdAt])]

\* the patch lands on the first row of the table, whoever it belongs to
PatchUserName_firstRow(db, id, name) == [db EXCEPT !.users[1].name = name]

\* ctx.db.patch(user._id, { name })
PatchUserName(db, id, name) == [db EXCEPT !.users[id].name = name]

----------------------------------------------------------------------------
(* convex/helpers.ts *)

\* a missing identity is replaced by an anonymous one instead of refused
requireAuth_anonymous(identity) ==
    IF identity = Undefined
    THEN Ok([subject |-> "anonymous", name |-> Undefined, email |-> Undefined])
    ELSE Ok(Get(identity))

requireAuth(identity) ==
    IF identity = Undefined THEN Err(MsgAuthRequired) ELSE Ok(Get(identity))

\* the query has lost its index range: the first row of the table is taken
requireUserTry_first(db, id) ==
    IF db.users = <<>> THEN Err(MsgUserNotFound) ELSE Ok(db.users[1])

\* the body of the try block of requireUser; id is what requireAuth returned
requireUserTry(db, id) ==
    LET found == Unique(ByClerkId(db, id.subject)) IN
    IF Failed(found) THEN found
    ELSE IF found.value = Undefined THEN Err(MsgUserNotFound)
    ELSE Ok(Get(found.value))

\* requireAuth is outside the try; whatever the try block throws is caught
\* and rethrown as the integrity error
requireUser(db, identity) ==
    LET auth == requireAuth(identity) IN
    IF Failed(auth) THEN auth
    ELSE IF Failed(requireUserTry(db, Get(auth.value))) THEN Err(MsgIntegrity)
    ELSE requireUserTry(db, Get(auth.value))

\* null when unauthenticated, when no row matches and when unique() throws
getCurrentUserOptional(db, identity) ==
    IF identity = Undefined THEN Undefined
    ELSE LET found == Unique(ByClerkId(db, Get(identity).subject)) IN
         IF Failed(found) THEN Undefined ELSE found.value

----------------------------------------------------------------------------
(* Outcome of a handler: its result, the database it leaves, its writes *)

\* the arguments of a function that takes none
NoArgs == [none |-> TRUE]

Outcome(result, db, writes) == [result |-> result, db |-> db, writes |-> writes]

Throw(db, message) == Outcome(Err(message), db, <<>>)

\* the call returns or throws: its writes are in the tables
Apply(op, identity, args, r) ==
    /\ last' = [op |-> op, identity |-> identity, args |-> args,
                result |-> r.result, writes |-> r.writes]
    /\ users' = r.db.users
    /\ notes' = r.db.notes
    /\ noteIds' = r.db.noteIds
    /\ UNCHANGED <<now, providerVars>>

\* a call that runs from its first line to its last in one step
Commit(op, identity, args, r) ==
    /\ Apply(op, identity, args, r)
    /\ UNCHANGED inflight

----------------------------------------------------------------------------
(* convex/users.ts *)

\* the email is left out of the chain of fallbacks
PreferredName_skipsEmail(id) == Coalesce(id.name, "Unnamed User")

PreferredName(id) == Coalesce(id.name, Coalesce(id.email, "Unnamed User"))

\* the stored name is compared with identity.name, not with the name that
\* would be stored
storeRun_comparesName(db, t, identity) ==
    IF identity = Undefined THEN Throw(db, MsgStoreNoAuth)
    ELSE
    LET id == Get(identity)
        found == Unique(ByClerkId(db, id.subject))
    IN
    IF Failed(found) THEN Throw(db, found.message)
    ELSE IF found.value # Undefined THEN
        LET user == Get(found.value) IN
        IF Some(user.name) # id.name
        THEN Outcome(Ok(user._id), PatchUserName(db, user._id, PreferredName(id)),
                     <<"patch">>)
        ELSE Outcome(Ok(user._id), db, <<>>)
    ELSE Outcome(Ok(Len(db.users) + 1),
                 InsertUser(db, [clerkId |-> id.subject,
                                 email |-> Coalesce(id.email, "No email provided"),
                                 name |-> PreferredName(id),
                                 createdAt |-> t]),
                 <<"insert">>)

\* the patch of a drifted name also brings the email up to date
storeAfterLookup_refreshesEmail(db, t, id, user) ==
    IF user # Undefined THEN
        IF Get(user).name # PreferredName(id)
        THEN Outcome(Ok(Get(user)._id),
                     [db EXCEPT !.users[Get(user)._id].name = PreferredName(id),
                                !.users[Get(user)._id].email =
                                    Coalesce(id.email, "No email provided")],
                     <<"patch">>)
        ELSE Outcome(Ok(Get(user)._id), db, <<>>)
    ELSE Outcome(Ok(Len(db.users) + 1),
                 InsertUser(db, [clerkId |-> id.subject,
                                 email |-> Coalesce(id.email, "No email provided"),
                                 name |-> PreferredName(id),
                                 createdAt |-> t]),
                 <<"insert">>)

\* the insert is done only if the subject still has no row; otherwise the
\* row that is there is returned
storeAfterLookup_insertIfAbsent(db, t, id, user) ==
    IF user # Undefined THEN
        IF Get(user).name # PreferredName(id)
        THEN Outcome(Ok(Get(user)._id),
                     PatchUserName(db, Get(user)._id, PreferredName(id)), <<"patch">>)
        ELSE Outcome(Ok(Get(user)._id), db, <<>>)
    ELSE IF ByClerkId(db, id.subject) # {}
    THEN Outcome(Ok((CHOOSE u \in ByClerkId(db, id.subject) : TRUE)._id), db, <<>>)
    ELSE Outcome(Ok(Len(db.users) + 1),
                 InsertUser(db, [clerkId |-> id.subject,
                                 email |-> Coalesce(id.email, "No email provided"),
                                 name |-> PreferredName(id),
                                 createdAt |-> t]),
                 <<"insert">>)

\* lines 66-85 of store: user is what the lookup returned
storeAfterLookup(db, t, id, user) ==
    IF user # Undefined THEN
        IF Get(user).name # PreferredName(id)
        THEN Outcome(Ok(Get(user)._id),
                     PatchUserName(db, Get(user)._id, PreferredName(id)), <<"patch">>)
        ELSE Outcome(Ok(Get(user)._id), db, <<>>)
    ELSE Outcome(Ok(Len(db.users) + 1),
                 InsertUser(db, [clerkId |-> id.subject,
                                 email |-> Coalesce(id.email, "No email provided"),
                                 name |-> PreferredName(id),
                                 createdAt |-> t]),
                 <<"insert">>)

storeRun(db, t, identity) ==
    IF identity = Undefined THEN Throw(db, MsgStoreNoAuth)
    ELSE
    LET id == Get(identity)
        found == Unique(ByClerkId(db, id.subject))
    IN
    IF Failed(found) THEN Throw(db, found.message)
    ELSE storeAfterLookup(db, t, id, found.value)

store(identity) ==
    LET r == storeRun(DB, now, identity) IN
    /\ Len(r.db.users) <= MaxUsers
    /\ Commit("store", identity, NoArgs, r)

\* store up to its query (lines 55-64), run as a step of its own: the call
\* holds identity and user until its write
storeLookup(c, identity) ==
    /\ inflight[c] = Undefined
    /\ IF identity = Undefined
       THEN Commit("store", identity, NoArgs, Throw(DB, MsgStoreNoAuth))
       ELSE LET found == Unique(ByClerkId(DB, Get(identity).subject)) IN
            IF Failed(found)
            THEN Commit("store", identity, NoArgs, Throw(DB, found.message))
            ELSE /\ inflight' = [inflight EXCEPT
                                    ![c] = Some([identity |-> Get(identity),
                                                 user |-> found.value])]
                 /\ UNCHANGED <<users, notes, noteIds, now, last, providerVars>>

\* store from its test of user to its return (lines 66-85), with the user
\* its own lookup found
storeWrite(c) ==
    /\ inflight[c] # Undefined
    /\ LET call == Get(inflight[c])
           r == storeAfterLookup(DB, now, call.identity, call.user)
       IN /\ Len(r.db.users) <= MaxUsers
          /\ Apply("store", Some(call.identity), NoArgs, r)
          /\ inflight' = [inflight EXCEPT ![c] = Undefined]

\* without the try/catch: what unique() throws reaches the caller
getCurrentUserRun_uncaught(db, identity) ==
    IF identity = Undefined THEN Outcome(OkVoid, db, <<>>)
    ELSE LET found == Unique(ByClerkId(db, Get(identity).subject)) IN
         IF Failed(found) THEN Throw(db, found.message)
         ELSE Outcome([kind |-> "ok", value |-> found.value, message |-> ""], db, <<>>)

getCurrentUserRun(db, identity) ==
    IF identity = Undefined THEN Outcome(OkVoid, db, <<>>)
    ELSE LET found == Unique(ByClerkId(db, Get(identity).subject)) IN
         IF Failed(found) THEN Outcome(OkVoid, db, <<>>)
         ELSE Outcome([kind |-> "ok", value |-> found.value, message |-> ""], db, <<>>)

getCurrentUser(identity) ==
    Commit("getCurrentUser", identity, NoArgs, getCurrentUserRun(DB, identity))

----------------------------------------------------------------------------
(* convex/notes.ts *)

BillStatuses == {"open", "billed", "canceled"}

\* off by one at the upper bound
InvalidTitle_offByOne(title) == Length(title) = 0 \/ Length(title) >= MaxTitleLen

\* title.length === 0 || title.length > 200
InvalidTitle(title) == Length(title) = 0 \/ Length(title) > MaxTitleLen

\* content.length === 0 || content.length > 5000
InvalidContent(content) == Length(content) = 0 \/ Length(content) > MaxContentLen

\* the upper bound of the duration is not checked
InvalidDuration_noUpperBound(duration) ==
    duration # Undefined /\ Get(duration) < 0

\* duration !== undefined && (duration < 0 || duration > 1440)
InvalidDuration(duration) ==
    duration # Undefined /\ (Get(duration) < 0 \/ Get(duration) > MaxDuration)

\* the ownership check compares the note's own id with the caller's
NotOwner_noteId(note, user) == note._id # user._id

\* typedNote.createdBy !== user._id
NotOwner(note, user) == note.createdBy # user._id

\* the arguments are validated trimmed but stored as given
createNoteRun_untrimmed(db, t, identity, args) ==
    LET resolved == requireUser(db, identity) IN
    IF Failed(resolved) THEN Throw(db, resolved.message)
    ELSE
    LET user == Get(resolved.value)
        title == Trim(args.title)
        content == Trim(args.content)
    IN
    IF InvalidTitle(title) THEN Throw(db, MsgTitle)
    ELSE IF InvalidContent(content) THEN Throw(db, MsgContent)
    ELSE IF InvalidDuration(args.duration) THEN Throw(db, MsgDuration)
    ELSE Outcome(Ok(db.noteIds + 1),
                 InsertNote(db, [title |-> args.title,
                                 content |-> args.content,
                                 createdBy |-> user._id,
                                 createdAt |-> t,
                                 billable |-> args.billable,
                                 duration |-> args.duration,
                                 billStatus |-> "open"]),
                 <<"insert">>)

createNoteRun(db, t, identity, args) ==
    LET resolved == requireUser(db, identity) IN
    IF Failed(resolved) THEN Throw(db, resolved.message)
    ELSE
    LET user == Get(resolved.value)
        title == Trim(args.title)
        content == Trim(args.content)
    IN
    IF InvalidTitle(title) THEN Throw(db, MsgTitle)
    ELSE IF InvalidContent(content) THEN Throw(db, MsgContent)
    ELSE IF InvalidDuration(args.duration) THEN Throw(db, MsgDuration)
    ELSE Outcome(Ok(db.noteIds + 1),
                 InsertNote(db, [title |-> title,
                                 content |-> content,
                                 createdBy |-> user._id,
                                 createdAt |-> t,
                                 billable |-> args.billable,
                                 duration |-> args.duration,
                                 billStatus |-> "open"]),
                 <<"insert">>)

\* the filter counts as soon as the field is present, false included
ByCurrentUser_present(filters) == filters.createdByCurrentUser # Undefined

\* filters.createdByCurrentUser as a condition: present and true
ByCurrentUser(filters) == filters.createdByCurrentUser = Some(TRUE)

\* filters.billStatus as a condition: present (each literal is non-empty)
ByBillStatus(filters) == filters.billStatus # Undefined

NoFilters == [createdByCurrentUser |-> Undefined, billStatus |-> Undefined]

\* the branch of both filters has lost its .filter on billStatus
getNotesRun_ignoresStatus(db, identity, args) ==
    IF Failed(requireAuth(identity)) THEN Throw(db, requireAuth(identity).message)
    ELSE
    LET filters == Coalesce(args.filters, NoFilters)
        user == getCurrentUserOptional(db, identity)
        all == Rows(db.notes)
    IN
    IF ByCurrentUser(filters) THEN
        IF user = Undefined THEN Outcome(Ok(<<>>), db, <<>>)
        ELSE Outcome(Ok(Reverse(Where(db.notes,
                 {n \in all : n.createdBy = Get(user)._id}))), db, <<>>)
    ELSE IF ByBillStatus(filters) THEN
        Outcome(Ok(Reverse(Where(db.notes,
                 {n \in all : n.billStatus = Get(filters.billStatus)}))), db, <<>>)
    ELSE Outcome(Ok(Reverse(db.notes)), db, <<>>)

\* a caller whose user cannot be resolved is refused instead of answered
getNotesRun_requiresUser(db, identity, args) ==
    IF Failed(requireAuth(identity)) THEN Throw(db, requireAuth(identity).message)
    ELSE
    LET filters == Coalesce(args.filters, NoFilters)
        user == getCurrentUserOptional(db, identity)
        all == Rows(db.notes)
    IN
    IF ByCurrentUser(filters) /\ ByBillStatus(filters) THEN
        IF user = Undefined THEN Throw(db, MsgUserNotFound)
        ELSE Outcome(Ok(Reverse(Where(db.notes,
                 {n \in all : n.createdBy = Get(user)._id
                              /\ n.billStatus = Get(filters.billStatus)}))), db, <<>>)
    ELSE IF ByCurrentUser(filters) THEN
        IF user = Undefined THEN Throw(db, MsgUserNotFound)
        ELSE Outcome(Ok(Reverse(Where(db.notes,
                 {n \in all : n.createdBy = Get(user)._id}))), db, <<>>)
    ELSE IF ByBillStatus(filters) THEN
        Outcome(Ok(Reverse(Where(db.notes,
                 {n \in all : n.billStatus = Get(filters.billStatus)}))), db, <<>>)
    ELSE Outcome(Ok(Reverse(db.notes)), db, <<>>)

getNotesRun(db, identity, args) ==
    IF Failed(requireAuth(identity)) THEN Throw(db, requireAuth(identity).message)
    ELSE
    LET filters == Coalesce(args.filters, NoFilters)
        user == getCurrentUserOptional(db, identity)
        all == Rows(db.notes)
    IN
    IF ByCurrentUser(filters) /\ ByBillStatus(filters) THEN
        IF user = Undefined THEN Outcome(Ok(<<>>), db, <<>>)
        ELSE Outcome(Ok(Reverse(Where(db.notes,
                 {n \in all : n.createdBy = Get(user)._id
                              /\ n.billStatus = Get(filters.billStatus)}))), db, <<>>)
    ELSE IF ByCurrentUser(filters) THEN
        IF user = Undefined THEN Outcome(Ok(<<>>), db, <<>>)
        ELSE Outcome(Ok(Reverse(Where(db.notes,
                 {n \in all : n.createdBy = Get(user)._id}))), db, <<>>)
    ELSE IF ByBillStatus(filters) THEN
        Outcome(Ok(Reverse(Where(db.notes,
                 {n \in all : n.billStatus = Get(filters.billStatus)}))), db, <<>>)
    ELSE Outcome(Ok(Reverse(db.notes)), db, <<>>)

\* each field is written as soon as it has passed its own check
updateNoteRun_fieldByField(db, identity, args) ==
    LET resolved == requireUser(db, identity) IN
    IF Failed(resolved) THEN Throw(db, resolved.message)
    ELSE
    LET user == Get(resolved.value)
        note == GetNote(db, args.id)
    IN
    IF note = Undefined THEN Throw(db, MsgNoteNotFound)
    ELSE IF NotOwner(Get(note), user) THEN Throw(db, MsgUpdateForbidden)
    ELSE
    LET updates == [title |-> IF args.title # Undefined
                              THEN Some(Trim(Get(args.title))) ELSE Undefined,
                    content |-> IF args.content # Undefined
                                THEN Some(Trim(Get(args.content))) ELSE Undefined,
                    billable |-> args.billable,
                    duration |-> args.duration,
                    billStatus |-> args.billStatus]
        none == [title |-> Undefined, content |-> Undefined, billable |-> Undefined,
                 duration |-> Undefined, billStatus |-> Undefined]
        titled == [none EXCEPT !.title = updates.title]
        contented == [titled EXCEPT !.content = updates.content]
    IN
    IF updates.title # Undefined /\ InvalidTitle(Get(updates.title))
    THEN Throw(db, MsgTitle)
    ELSE IF updates.content # Undefined /\ InvalidContent(Get(updates.content))
    THEN Outcome(Err(MsgContent), PatchNote(db, args.id, titled), <<"patch">>)
    ELSE IF InvalidDuration(updates.duration)
    THEN Outcome(Err(MsgDuration), PatchNote(db, args.id, contented), <<"patch">>)
    ELSE Outcome(OkVoid, PatchNote(db, args.id, updates), <<"patch">>)

\* the note is read back after the patch and returned
updateNoteRun_returnsNote(db, identity, args) ==
    LET resolved == requireUser(db, identity) IN
    IF Failed(resolved) THEN Throw(db, resolved.message)
    ELSE
    LET user == Get(resolved.value)
        note == GetNote(db, args.id)
    IN
    IF note = Undefined THEN Throw(db, MsgNoteNotFound)
    ELSE IF NotOwner(Get(note), user) THEN Throw(db, MsgUpdateForbidden)
    ELSE
    LET updates == [title |-> IF args.title # Undefined
                              THEN Some(Trim(Get(args.title))) ELSE Undefined,
                    content |-> IF args.content # Undefined
                                THEN Some(Trim(Get(args.content))) ELSE Undefined,
                    billable |-> args.billable,
                    duration |-> args.duration,
                    billStatus |-> args.billStatus]
    IN
    IF updates.title # Undefined /\ InvalidTitle(Get(updates.title))
    THEN Throw(db, MsgTitle)
    ELSE IF updates.content # Undefined /\ InvalidContent(Get(updates.content))
    THEN Throw(db, MsgContent)
    ELSE IF InvalidDuration(updates.duration) THEN Throw(db, MsgDuration)
    ELSE Outcome(Ok(PatchFields(Get(note), updates)),
                 PatchNote(db, args.id, updates), <<"patch">>)

\* the fields are validated before the note is looked up
updateNoteRun_validatesFirst(db, identity, args) ==
    LET resolved == requireUser(db, identity) IN
    IF Failed(resolved) THEN Throw(db, resolved.message)
    ELSE
    LET user == Get(resolved.value)
        note == GetNote(db, args.id)
        updates == [title |-> IF args.title # Undefined
                              THEN Some(Trim(Get(args.title))) ELSE Undefined,
                    content |-> IF args.content # Undefined
                                THEN Some(Trim(Get(args.content))) ELSE Undefined,
                    billable |-> args.billable,
                    duration |-> args.duration,
                    billStatus |-> args.billStatus]
    IN
    IF updates.title # Undefined /\ InvalidTitle(Get(updates.title))
    THEN Throw(db, MsgTitle)
    ELSE IF updates.content # Undefined /\ InvalidContent(Get(updates.content))
    THEN Throw(db, MsgContent)
    ELSE IF InvalidDuration(updates.duration) THEN Throw(db, MsgDuration)
    ELSE IF note = Undefined THEN Throw(db, MsgNoteNotFound)
    ELSE IF NotOwner(Get(note), user) THEN Throw(db, MsgUpdateForbidden)
    ELSE Outcome(OkVoid, PatchNote(db, args.id, updates), <<"patch">>)

updateNoteRun(db, identity, args) ==
    LET resolved == requireUser(db, identity) IN
    IF Failed(resolved) THEN Throw(db, resolved.message)
    ELSE
    LET user == Get(resolved.value)
        note == GetNote(db, args.id)
    IN
    IF note = Undefined THEN Throw(db, MsgNoteNotFound)
    ELSE IF NotOwner(Get(note), user) THEN Throw(db, MsgUpdateForbidden)
    ELSE
    LET updates == [title |-> IF args.title # Undefined
                              THEN Some(Trim(Get(args.title))) ELSE Undefined,
                    content |-> IF args.content # Undefined
                                THEN Some(Trim(Get(args.content))) ELSE Undefined,
                    billable |-> args.billable,
                    duration |-> args.duration,
                    billStatus |-> args.billStatus]
    IN
    IF updates.title # Undefined /\ InvalidTitle(Get(updates.title))
    THEN Throw(db, MsgTitle)
    ELSE IF updates.content # Undefined /\ InvalidContent(Get(updates.content))
    THEN Throw(db, MsgContent)
    ELSE IF InvalidDuration(updates.duration) THEN Throw(db, MsgDuration)
    ELSE Outcome(OkVoid, PatchNote(db, args.id, updates), <<"patch">>)

\* the handler answers without deleting anything
deleteNoteRun_keepsNote(db, identity, args) ==
    LET resolved == requireUser(db, identity) IN
    IF Failed(resolved) THEN Throw(db, resolved.message)
    ELSE
    LET user == Get(resolved.value)
        note == GetNote(db, args.id)
    IN
    IF note = Undefined THEN Throw(db, MsgNoteNotFound)
    ELSE IF NotOwner(Get(note), user) THEN Throw(db, MsgDeleteForbidden)
    ELSE Outcome(OkVoid, db, <<>>)

deleteNoteRun(db, identity, args) ==
    LET resolved == requireUser(db, identity) IN
    IF Failed(resolved) THEN Throw(db, resolved.message)
    ELSE
    LET user == Get(resolved.value)
        note == GetNote(db, args.id)
    IN
    IF note = Undefined THEN Throw(db, MsgNoteNotFound)
    ELSE IF NotOwner(Get(note), user) THEN Throw(db, MsgDeleteForbidden)
    ELSE Outcome(OkVoid, DeleteNote(db, args.id), <<"delete">>)

createNote(identity, args) ==
    LET r == createNoteRun(DB, now, identity, args) IN
    /\ r.db.noteIds <= MaxNoteIds
    /\ Len(r.db.notes) <= MaxNotes
    /\ Commit("createNote", identity, args, r)

\* .first() on the index by_clerk_id: the oldest of the rows that match
First(db, subject) ==
    LET matches == Where(db.users, ByClerkId(db, subject)) IN
    IF matches = <<>> THEN Undefined ELSE Some(Head(matches))

\* the second definition of createNote in notes.ts (lines 218-247)
createNoteOldRun(db, t, identity, args) ==
    IF identity = Undefined THEN Throw(db, MsgNotAuthenticated)
    ELSE
    LET user == First(db, Get(identity).subject) IN
    IF user = Undefined THEN Throw(db, MsgOldUserNotFound)
    ELSE Outcome(Ok(db.noteIds + 1),
                 InsertNote(db, [title |-> args.title,
                                 content |-> args.content,
                                 createdBy |-> Get(user)._id,
                                 createdAt |-> t,
                                 billable |-> args.billable,
                                 duration |-> args.duration,
                                 billStatus |-> "open"]),
                 <<"insert">>)

createNoteOld(identity, args) ==
    LET r == createNoteOldRun(DB, now, identity, args) IN
    /\ r.db.noteIds <= MaxNoteIds
    /\ Len(r.db.notes) <= MaxNotes
    /\ Commit("createNoteOld", identity, args, r)

getNotes(identity, args) ==
    Commit("getNotes", identity, args, getNotesRun(DB, identity, args))

updateNote(identity, args) ==
    Commit("updateNote", identity, args, updateNoteRun(DB, identity, args))

deleteNote(identity, args) ==
    Commit("deleteNote", identity, args, deleteNoteRun(DB, identity, args))

----------------------------------------------------------------------------
(* Date.now() advances between calls *)

Tick ==
    /\ now < MaxNow
    /\ now' = now + 1
    /\ UNCHANGED <<users, notes, noteIds, last, inflight, providerVars>>

----------------------------------------------------------------------------
(* src/components/ConvexProvider.vue, the version with authError and Retry *)

\* error.value of the refs: the error thrown for a missing token, and
\* whatever a rejected getToken or storeUser threw
ErrNoToken == "No Convex JWT token received from Clerk session"
ErrRejected == "rejected"

\* the credentials of the Convex client: nothing installed yet, a token
\* (named by the user it was issued to), cleared by setAuth(async () => null),
\* or the client closed
NoAuthYet == [kind |-> "none", user |-> Undefined]
Token(u) == [kind |-> "token", user |-> Some(u)]
Cleared == [kind |-> "cleared", user |-> Undefined]
Closed == [kind |-> "closed", user |-> Undefined]

\* what useUser() and useSession() hold
ClerkState(cl, sl, u, s) ==
    [clerkIsLoaded |-> cl, sessionIsLoaded |-> sl, user |-> u, session |-> s]

\* the user a session of Clerk belongs to: the browser has one user
ClerkUser == "u1"
SessionUser(s) == ClerkUser

\* a run of updateAuth: where it stands, the session it called getToken on,
\* and what getToken gave it
RunAt(pc, session, token) == [pc |-> pc, session |-> session, token |-> token]

NoRun == RunAt("idle", Undefined, "pending")

\* a run is between its call and its end
Pending(run) == run.pc \in {"getToken", "storeUser"}

\* the branch of the template that is rendered
\*   v-if="!isReady"  /  v-else-if="authError"  /  v-else <slot />
Rendered ==
    IF ~isReady THEN "loading"
    ELSE IF authError # Undefined THEN "error"
    ELSE "slot"

\* updateAuth from its first line to its first await, with Clerk in state c
updateAuth(c) ==
    /\ started < MaxRuns
    /\ started' = started + 1
    /\ authError' = Undefined
    /\ UNCHANGED synced
    /\ IF ~c.clerkIsLoaded \/ ~c.sessionIsLoaded
       THEN /\ isReady' = FALSE
            /\ runs' = [runs EXCEPT ![started + 1] = RunAt("returned", Undefined, "pending")]
            /\ UNCHANGED convexAuth
       ELSE IF c.user # Undefined /\ c.session # Undefined
       THEN /\ runs' = [runs EXCEPT ![started + 1] = RunAt("getToken", c.session, "pending")]
            /\ UNCHANGED <<isReady, convexAuth>>
       ELSE /\ convexAuth' = Cleared
            /\ isReady' = TRUE
            /\ runs' = [runs EXCEPT ![started + 1] = RunAt("done", Undefined, "pending")]

\* the catch block of updateAuth
catch(r, token, error) ==
    /\ authError' = Some(error)
    /\ isReady' = FALSE
    /\ runs' = [runs EXCEPT ![r] = RunAt("failed", runs[r].session, token)]
    /\ UNCHANGED <<clerk, convexAuth, started, synced>>

\* watch([user, session, clerkIsLoaded, sessionIsLoaded], updateAuth): one of
\* the four refs has changed
watch(c) ==
    /\ c # clerk
    /\ clerk' = c
    /\ updateAuth(c)
    /\ UNCHANGED backendVars

\* the click on Retry, a button of the error panel
retryAuth ==
    /\ Rendered = "error"
    /\ updateAuth(clerk)
    /\ UNCHANGED <<clerk, backendVars>>

\* await session.value.getToken(...) of run r settles: a token, null, or a
\* rejection; the lines up to await storeUser({}) follow
getTokenSettles(r, outcome) ==
    /\ runs[r].pc = "getToken"
    /\ IF outcome = "token"
       THEN /\ convexAuth' = Token(SessionUser(Get(runs[r].session)))
            /\ runs' = [runs EXCEPT ![r] = RunAt("storeUser", runs[r].session, "token")]
            /\ UNCHANGED <<clerk, isReady, authError, started, synced>>
       ELSE IF outcome = "null"
       THEN catch(r, "null", ErrNoToken)
       ELSE catch(r, "rejected", ErrRejected)
    /\ UNCHANGED backendVars

\* await storeUser({}) of run r settles; store throws when the request
\* carries no identity
storeUserSettles(r, resolved) ==
    /\ runs[r].pc = "storeUser"
    /\ resolved => convexAuth.kind = "token"
    /\ IF resolved
       THEN /\ isReady' = TRUE
            /\ synced' = synced \cup convexAuth.user
            /\ runs' = [runs EXCEPT ![r] = RunAt("done", runs[r].session, runs[r].token)]
            /\ UNCHANGED <<clerk, authError, convexAuth, started>>
       ELSE catch(r, runs[r].token, ErrRejected)
    /\ UNCHANGED backendVars

----------------------------------------------------------------------------
(* src/components/ConvexProvider.vue, the version without authError        *)

\* v-if="isReady" <slot /> / v-else
RenderedOld == IF isReady THEN "slot" ELSE "loading"

\* updateAuth from its first line to its first await
updateAuthOld(c) ==
    /\ started < MaxRuns
    /\ started' = started + 1
    /\ UNCHANGED <<authError, synced>>
    /\ IF ~c.clerkIsLoaded \/ ~c.sessionIsLoaded
       THEN /\ isReady' = FALSE
            /\ runs' = [runs EXCEPT ![started + 1] = RunAt("returned", Undefined, "pending")]
            /\ UNCHANGED convexAuth
       ELSE IF c.user # Undefined /\ c.session # Undefined
       THEN /\ runs' = [runs EXCEPT ![started + 1] = RunAt("getToken", c.session, "pending")]
            /\ UNCHANGED <<isReady, convexAuth>>
       ELSE /\ convexAuth' = Closed
            /\ isReady' = TRUE
            /\ runs' = [runs EXCEPT ![started + 1] = RunAt("done", Undefined, "pending")]

\* the catch block: the children are shown all the same
catchOld(r, token) ==
    /\ isReady' = TRUE
    /\ runs' = [runs EXCEPT ![r] = RunAt("failed", runs[r].session, token)]
    /\ UNCHANGED <<clerk, authError, convexAuth, started, synced>>

watchOld(c) ==
    /\ c # clerk
    /\ clerk' = c
    /\ updateAuthOld(c)
    /\ UNCHANGED backendVars

\* getToken settles: without a token a warning is logged and the run goes on
getTokenSettlesOld(r, outcome) ==
    /\ runs[r].pc = "getToken"
    /\ IF outcome = "token"
       THEN /\ convexAuth' = Token(SessionUser(Get(runs[r].session)))
            /\ runs' = [runs EXCEPT ![r] = RunAt("storeUser", runs[r].session, "token")]
            /\ UNCHANGED <<clerk, isReady, authError, started, synced>>
       ELSE IF outcome = "null"
       THEN /\ runs' = [runs EXCEPT ![r] = RunAt("storeUser", runs[r].session, "null")]
            /\ UNCHANGED <<clerk, isReady, authError, convexAuth, started, synced>>
       ELSE catchOld(r, "rejected")
    /\ UNCHANGED backendVars

storeUserSettlesOld(r, resolved) ==
    /\ runs[r].pc = "storeUser"
    /\ resolved => convexAuth.kind = "token"
    /\ IF resolved
       THEN /\ isReady' = TRUE
            /\ synced' = synced \cup convexAuth.user
            /\ runs' = [runs EXCEPT ![r] = RunAt("done", runs[r].session, runs[r].token)]
            /\ UNCHANGED <<clerk, authError, convexAuth, started>>
       ELSE catchOld(r, runs[r].token)
    /\ UNCHANGED backendVars

----------------------------------------------------------------------------
(* The calls the model makes *)

Subjects == {"u1", "u2"}
Names == {"Alice", "Alice B"}
Emails == {"a@x.com"}

Identity(s, n, e) == [subject |-> s, name |-> n, email |-> e]

\* ctx.auth.getUserIdentity(): null or the assertion of a signed-in caller
AllIdentities ==
    Opt({Identity(s, n, e) : s \in Subjects, n \in Opt(Names), e \in Opt(Emails)})

\* the callers of the notes functions, which read only identity.subject
Identities == Opt({Identity(s, Undefined, Undefined) : s \in Subjects})

Spaces(k) == Run(" ", k)

TitleEmpty == <<>>
TitleBlank == <<Spaces(2)>>
\* " ab\t"
TitleOk == <<Spaces(1), Run("a", 1), Run("b", 1), Run("\t", 1)>>
\* 200 a's between blanks, 201 a's
TitleMax == <<Spaces(1), Run("a", MaxTitleLen), Spaces(1)>>
TitleLong == <<Run("a", MaxTitleLen + 1)>>

ContentEmpty == <<>>
\* " c "
ContentOk == <<Spaces(1), Run("c", 1), Spaces(1)>>
\* 5000 c's after a newline, 5001 c's
ContentMax == <<Run("\n", 1), Run("c", MaxContentLen)>>
ContentLong == <<Run("c", MaxContentLen + 1)>>

Titles == {TitleEmpty, TitleBlank, TitleMax, TitleLong}
Contents == {ContentEmpty, ContentMax, ContentLong}
Durations == {-1, 0, MaxDuration, MaxDuration + 1}

CreateArgs(T, C, B, D) ==
    {[title |-> t, content |-> c, billable |-> b, duration |-> d] :
        t \in T, c \in C, b \in B, d \in D}

NoteIds == 1 .. MaxNoteIds

UpdateArgs(I, T, C, B, D, S) ==
    {[id |-> i, title |-> t, content |-> c, billable |-> b, duration |-> d,
      billStatus |-> s] : i \in I, t \in T, c \in C, b \in B, d \in D, s \in S}

DeleteArgs == {[id |-> i] : i \in NoteIds}

Filters ==
    {[createdByCurrentUser |-> c, billStatus |-> s] :
        c \in Opt(BOOLEAN), s \in Opt(BillStatuses)}

GetNotesArgs == {[filters |-> f] : f \in Opt(Filters)}

\* one valid note and one with a title that is too long
MainCreateArgs == CreateArgs({TitleOk, TitleLong}, {ContentOk}, {TRUE}, {Undefined})

\* billStatus alone; all five fields; and three calls with one invalid field
\* next to valid ones
MainUpdateArgs ==
    UpdateArgs(NoteIds, {Undefined}, {Undefined}, {Undefined}, {Undefined},
               {Some("billed")})
    \cup UpdateArgs(NoteIds, {Some(TitleMax)}, {Some(ContentMax)}, {Some(FALSE)},
                    {Some(MaxDuration)}, {Some("billed")})
    \cup UpdateArgs(NoteIds, {Some(TitleLong)}, {Undefined}, {Undefined},
                    {Undefined}, {Some("billed")})
    \cup UpdateArgs(NoteIds, {Some(TitleMax)}, {Some(ContentEmpty)}, {Some(FALSE)},
                    {Undefined}, {Undefined})
    \cup UpdateArgs(NoteIds, {Undefined}, {Some(ContentMax)}, {Undefined},
                    {Some(MaxDuration + 1)}, {Undefined})

\* every boundary of each validated field next to valid values of the other
\* two, calls with several fields out of bounds, and one note that is not
\* billable
BoundaryCreateArgs ==
    CreateArgs(Titles, {ContentMax}, {TRUE}, {Undefined})
    \cup CreateArgs({TitleMax}, Contents, {TRUE}, {Undefined})
    \cup CreateArgs({TitleMax}, {ContentMax}, {TRUE}, Opt(Durations))
    \cup CreateArgs({TitleBlank, TitleLong}, {ContentLong}, {TRUE},
                    {Some(-1), Some(0)})
    \cup CreateArgs({TitleMax}, {ContentEmpty}, {TRUE}, {Some(MaxDuration + 1)})
    \cup CreateArgs({TitleOk}, {ContentOk}, {FALSE}, {Undefined})

\* on the first note every subset of the five fields, each with a valid
\* value; on the other notes billStatus alone
SubsetUpdateArgs ==
    UpdateArgs({1}, {Undefined, Some(TitleMax)}, {Undefined, Some(ContentMax)},
               {Undefined, Some(FALSE)}, {Undefined, Some(MaxDuration)},
               {Undefined, Some("billed")})
    \cup UpdateArgs(NoteIds \ {1}, {Undefined}, {Undefined}, {Undefined},
                    {Undefined}, {Some("canceled")})

\* the single caller of SpecCreate and SpecUpdate that has a users row
Owner == Some(Identity("u1", Undefined, Undefined))

\* the runs of updateAuth that the model follows
Runs == 1 .. MaxRuns

\* the session objects that Clerk hands out as the session is refreshed
Sessions == {"s1", "s2"}

\* Clerk still loading the session, signed in, signed in with the session
\* not yet there, signed out, and nothing loaded
Loading == ClerkState(TRUE, FALSE, Some(ClerkUser), Undefined)
ClerkStates ==
    {Loading,
     ClerkState(TRUE, TRUE, Undefined, Undefined),
     ClerkState(FALSE, FALSE, Undefined, Undefined),
     ClerkState(TRUE, TRUE, Some(ClerkUser), Undefined)}
    \cup {ClerkState(TRUE, TRUE, Some(ClerkUser), Some(s)) : s \in Sessions}

\* what getToken can settle to
TokenOutcomes == {"token", "null", "rejected"}

----------------------------------------------------------------------------

Init ==
    /\ users = <<>>
    /\ notes = <<>>
    /\ noteIds = 0
    /\ now = 0
    /\ last = [op |-> "none", identity |-> Undefined, args |-> NoArgs,
               result |-> OkVoid, writes |-> <<>>]
    /\ inflight = [c \in 1 .. MaxCalls |-> Undefined]
    /\ clerk = Loading
    /\ isReady = FALSE
    /\ authError = Undefined
    /\ convexAuth = NoAuthYet
    /\ runs = [r \in Runs |-> NoRun]
    /\ started = 0
    /\ synced = {}

\* users.ts alone, with every identity assertion, as the clock advances
NextUsers ==
    \/ \E identity \in AllIdentities : store(identity)
    \/ \E identity \in AllIdentities : getCurrentUser(identity)
    \/ Tick

SpecUsers == Init /\ [][NextUsers]_vars


\* all six functions, two callers, within one tick of the clock
Next ==
    \/ \E identity \in Identities : store(identity)
    \/ \E identity \in Identities : getCurrentUser(identity)
    \/ \E identity \in Identities, args \in MainCreateArgs : createNote(identity, args)
    \/ \E identity \in Identities : getNotes(identity, [filters |-> Undefined])
    \/ \E identity \in Identities, args \in MainUpdateArgs : updateNote(identity, args)
    \/ \E identity \in Identities, args \in DeleteArgs : deleteNote(identity, args)

Spec == Init /\ [][Next]_vars

\* createNote at the boundaries of its validation
NextCreate ==
    \/ store(Owner)
    \/ \E args \in BoundaryCreateArgs : createNote(Owner, args)
    \/ \E args \in DeleteArgs : deleteNote(Owner, args)
    \/ Tick

SpecCreate == Init /\ [][NextCreate]_vars

\* updateNote with every subset of fields
NextUpdate ==
    \/ store(Owner)
    \/ \E args \in MainCreateArgs : createNote(Owner, args)
    \/ \E args \in SubsetUpdateArgs : updateNote(Owner, args)
    \/ \E args \in DeleteArgs : deleteNote(Owner, args)
    \/ Tick

SpecUpdate == Init /\ [][NextUpdate]_vars

\* the calls of store that may be under way at once
Calls == 1 .. MaxCalls

\* one valid note
OneCreateArgs == CreateArgs({TitleOk}, {ContentOk}, {TRUE}, {Undefined})

\* billStatus alone
StatusUpdateArgs ==
    UpdateArgs(NoteIds, {Undefined}, {Undefined}, {Undefined}, {Undefined},
               {Some("billed")})

\* the caller's own notes, of any status and open ones
OwnNotesArgs ==
    {[filters |-> Some([createdByCurrentUser |-> Some(TRUE), billStatus |-> s])] :
        s \in {Undefined, Some("open")}}

\* getNotes is asked for open notes, billed notes or notes of any status
ListArgs ==
    {[filters |-> f] :
        f \in Opt({[createdByCurrentUser |-> c, billStatus |-> st] :
                     c \in Opt(BOOLEAN),
                     st \in {Undefined, Some("open"), Some("billed")}})}

\* the callers of SpecRace: nobody, or the one subject whose calls overlap
RaceIdentities == {Undefined, Owner}

\* the signed-in callers
SignedIn == Identities \ {Undefined}

\* store as two steps, so that calls of store overlap, and every function
\* that looks the caller up
NextRace ==
    \/ \E c \in Calls, identity \in RaceIdentities : storeLookup(c, identity)
    \/ \E c \in Calls : storeWrite(c)
    \/ \E identity \in RaceIdentities : getCurrentUser(identity)
    \/ \E args \in OneCreateArgs : createNote(Owner, args)
    \/ \E args \in OneCreateArgs : createNoteOld(Owner, args)
    \/ \E args \in StatusUpdateArgs : updateNote(Owner, args)
    \/ \E args \in DeleteArgs : deleteNote(Owner, args)
    \/ \E identity \in SignedIn, args \in OwnNotesArgs : getNotes(identity, args)

SpecRace == Init /\ [][NextRace]_vars

\* the caller who is not the owner
Stranger == Some(Identity("u2", Undefined, Undefined))

\* the owner's calls of store overlap; the notes functions are called by
\* the owner and by a caller with a users row of their own
NextDup ==
    \/ \E c \in Calls : storeLookup(c, Owner)
    \/ \E c \in Calls : storeWrite(c)
    \/ store(Stranger)
    \/ getCurrentUser(Owner)
    \/ \E args \in OneCreateArgs : createNote(Owner, args)
    \/ \E identity \in SignedIn, args \in StatusUpdateArgs :
          updateNote(identity, args)
    \/ \E identity \in SignedIn, args \in DeleteArgs : deleteNote(identity, args)

SpecDup == Init /\ [][NextDup]_vars

\* getNotes with every shape of filters, over the notes of two users
NextList ==
    \/ \E identity \in SignedIn : store(identity)
    \/ \E identity \in SignedIn, args \in OneCreateArgs : createNote(identity, args)
    \/ \E identity \in SignedIn, args \in StatusUpdateArgs :
          updateNote(identity, args)
    \/ \E identity \in SignedIn, args \in DeleteArgs : deleteNote(identity, args)
    \/ \E identity \in SignedIn, args \in ListArgs : getNotes(identity, args)

SpecList == Init /\ [][NextList]_vars

\* the callers of SpecFrame: both subjects, the first with and without a name
FrameIdentities == SignedIn \cup {Some(Identity("u1", Some("Alice"), Undefined))}

\* every function, with a name that drifts, as the clock advances
NextFrame ==
    \/ \E identity \in FrameIdentities : store(identity)
    \/ \E identity \in SignedIn : getCurrentUser(identity)
    \/ \E args \in OneCreateArgs : createNote(Owner, args)
    \/ \E args \in StatusUpdateArgs : updateNote(Owner, args)
    \/ \E args \in DeleteArgs : deleteNote(Owner, args)
    \/ getNotes(Owner, [filters |-> Undefined])
    \/ Tick

SpecFrame == Init /\ [][NextFrame]_vars

\* one call for each of the four branches of getNotes
BranchArgs ==
    OwnNotesArgs
    \cup {[filters |-> Some([createdByCurrentUser |-> Undefined,
                             billStatus |-> Some("open")])],
          [filters |-> Undefined]}

\* getNotes over notes created at different times
NextOrder ==
    \/ store(Owner)
    \/ \E args \in OneCreateArgs : createNote(Owner, args)
    \/ \E args \in StatusUpdateArgs : updateNote(Owner, args)
    \/ \E args \in DeleteArgs : deleteNote(Owner, args)
    \/ \E args \in BranchArgs : getNotes(Owner, args)
    \/ Tick

SpecOrder == Init /\ [][NextOrder]_vars

\* the component with authError: Clerk changes, the runs of updateAuth
\* settle in any order, Retry is clicked
NextProvider ==
    \/ \E c \in ClerkStates : watch(c)
    \/ retryAuth
    \/ \E r \in Runs, outcome \in TokenOutcomes : getTokenSettles(r, outcome)
    \/ \E r \in Runs, resolved \in BOOLEAN : storeUserSettles(r, resolved)

SpecProvider == Init /\ [][NextProvider]_vars

\* the component without authError
NextProviderOld ==
    \/ \E c \in ClerkStates : watchOld(c)
    \/ \E r \in Runs, outcome \in TokenOutcomes : getTokenSettlesOld(r, outcome)
    \/ \E r \in Runs, resolved \in BOOLEAN : storeUserSettlesOld(r, resolved)

SpecProviderOld == Init /\ [][NextProviderOld]_vars
----------------------------------------------------------------------------
(* Vocabulary of the properties *)

\* the error classes of the specification, as sets of messages
AuthRequired == {MsgAuthRequired, MsgStoreNoAuth}
UserNotFound == {MsgUserNotFound}
IntegrityError == {MsgIntegrity, MsgUniqueThrew}
ValidationError == {MsgTitle, MsgContent, MsgDuration}
NotFound == {MsgNoteNotFound}
Forbidden == {MsgUpdateForbidden, MsgDeleteForbidden}

FailedWith(r, class) == r.kind = "error" /\ r.message \in class

\* the step is a call: it sets last
Called == last'.op # last.op \/ last' # last

\* the step is a call of one of the functions ops
Call(ops) == last'.op \in ops /\ Called

\* the users rows of a caller
UsersOf(identity) ==
    {users[i] : i \in {j \in DOMAIN users : users[j].clerkId = Get(identity).subject}}

\* the notes rows with an id
NotesWithId(id) == {notes[i] : i \in {j \in DOMAIN notes : notes[j]._id = id}}

ValidTitleArg(t) == Length(Trim(t)) >= 1 /\ Length(Trim(t)) <= 200
ValidContentArg(c) == Length(Trim(c)) >= 1 /\ Length(Trim(c)) <= 5000
ValidDurationArg(d) == d = Undefined \/ (Get(d) >= 0 /\ Get(d) <= 1440)

ValidUpdate(args) ==
    /\ args.title # Undefined => ValidTitleArg(Get(args.title))
    /\ args.content # Undefined => ValidContentArg(Get(args.content))
    /\ ValidDurationArg(args.duration)

----------------------------------------------------------------------------
(* C1: under any sequence of users.store calls, each one atomic, the users *)
(* table holds at most one row per clerkId.                                *)
C1_OneRowPerSubject ==
    \A i, j \in DOMAIN users : users[i].clerkId = users[j].clerkId => i = j

\* both subjects have their row and a store call found one of them
C1_Witness ==
    /\ Len(users) = Cardinality(Subjects)
    /\ last.op = "store"
    /\ last.result.kind = "ok"
    /\ last.writes # <<"insert">>

(* C2: createNote, updateNote and deleteNote called by a signed-in caller  *)
(* who has no users row fail with the UserNotFound error.                  *)
C2_UserNotFound ==
    [][(/\ Call({"createNote", "updateNote", "deleteNote"})
        /\ last'.identity # Undefined
        /\ UsersOf(last'.identity) = {})
       => FailedWith(last'.result, UserNotFound)]_vars

(* C3: updateNote and deleteNote by a caller whose user is not the note's  *)
(* owner fail with Forbidden and leave the note as it is; the owner's call *)
(* with valid fields succeeds; a note changes or disappears only in a call *)
(* of its owner on that note.                                              *)
C3_Stranger(identity, id) ==
    /\ identity # Undefined
    /\ \E u \in UsersOf(identity), n \in NotesWithId(id) : n.createdBy # u._id

C3_OwnerCall(identity, id) ==
    /\ identity # Undefined
    /\ \E u \in UsersOf(identity), n \in NotesWithId(id) : n.createdBy = u._id

C3_Ownership ==
    [][/\ (Call({"updateNote", "deleteNote"})
           /\ C3_Stranger(last'.identity, last'.args.id))
          => FailedWith(last'.result, Forbidden) /\ notes' = notes
       /\ (Call({"updateNote"})
           /\ C3_OwnerCall(last'.identity, last'.args.id)
           /\ ValidUpdate(last'.args))
          => last'.result.kind = "ok"
       /\ (Call({"deleteNote"}) /\ C3_OwnerCall(last'.identity, last'.args.id))
          => last'.result.kind = "ok"
       /\ \A n \in Rows(notes) :
            n \notin Rows(notes') =>
              /\ Call({"updateNote", "deleteNote"})
              /\ last'.args.id = n._id
              /\ C3_OwnerCall(last'.identity, n._id)
      ]_vars

\* a caller who is not the owner was refused and the note is still there
C3_Witness ==
    /\ last.op \in {"updateNote", "deleteNote"}
    /\ FailedWith(last.result, Forbidden)
    /\ NotesWithId(last.args.id) # {}

C5_NoPartialWrites ==
    [][(Call({"store", "createNote", "updateNote", "deleteNote"})
        /\ Failed(last'.result))
       => users' = users /\ notes' = notes]_vars

\* an update with a valid title and an invalid content was refused
C5_Witness ==
    /\ last.op = "updateNote"
    /\ FailedWith(last.result, ValidationError)
    /\ last.args.title # Undefined
    /\ ValidTitleArg(Get(last.args.title))
    /\ last.args.content # Undefined
    /\ ~ValidContentArg(Get(last.args.content))

(* C6: a note's createdBy is the users id of the caller that created it,   *)
(* keeps that value as long as the note exists, and is always the id of a  *)
(* row of the users table.                                                 *)
C6_CreatedByFixed ==
    /\ [](\A n \in Rows(notes) : \E i \in DOMAIN users : users[i]._id = n.createdBy)
    /\ [][/\ \A i \in DOMAIN notes, j \in DOMAIN notes' :
               notes[i]._id = notes'[j]._id => notes'[j].createdBy = notes[i].createdBy
          /\ (Call({"createNote"}) /\ last'.result.kind = "ok") =>
               /\ Len(notes') = Len(notes) + 1
               /\ \E u \in UsersOf(last'.identity) :
                     notes'[Len(notes')].createdBy = u._id
         ]_vars

\* a note of the second user has been updated
C6_Witness ==
    /\ last.op = "updateNote"
    /\ last.result.kind = "ok"
    /\ \E n \in NotesWithId(last.args.id) : n.createdBy = 2 /\ n.billStatus = "billed"

(* C7: for a caller with a users row, createNote succeeds exactly when the *)
(* trimmed title has 1..200 characters, the trimmed content 1..5000 and    *)
(* the duration is absent or in 0..1440; otherwise it fails with the       *)
(* ValidationError of a field that is out of bounds.                       *)
C7_Offending(args) ==
    (IF ValidTitleArg(args.title) THEN {} ELSE {MsgTitle})
    \cup (IF ValidContentArg(args.content) THEN {} ELSE {MsgContent})
    \cup (IF ValidDurationArg(args.duration) THEN {} ELSE {MsgDuration})

C7_CreateValidation ==
    [][(/\ Call({"createNote"})
        /\ last'.identity # Undefined
        /\ Cardinality(UsersOf(last'.identity)) = 1)
       => /\ last'.result.kind = "ok" <=> C7_Offending(last'.args) = {}
          /\ Failed(last'.result) => last'.result.message \in C7_Offending(last'.args)
      ]_vars

\* a note with a title of 200 characters and a duration of 1440 was created
C7_Witness ==
    /\ last.op = "createNote"
    /\ last.result.kind = "ok"
    /\ Length(Trim(last.args.title)) = 200
    /\ last.args.duration = Some(1440)

(* C8: a successful createNote appends one note and changes nothing else;  *)
(* the note is open, owned by the caller's user, holds the trimmed title   *)
(* and content, billable and duration as given, and its id, which is the   *)
(* result, is the id of no note that was there.                            *)
C8_CreateEffect ==
    [][(Call({"createNote"}) /\ last'.result.kind = "ok") =>
         /\ users' = users
         /\ Len(notes') = Len(notes) + 1
         /\ SubSeq(notes', 1, Len(notes)) = notes
         /\ LET n == notes'[Len(notes')]
                a == last'.args
            IN /\ n.billStatus = "open"
               /\ \E u \in UsersOf(last'.identity) : n.createdBy = u._id
               /\ n.createdAt = now
               /\ n.title = Trim(a.title)
               /\ n.content = Trim(a.content)
               /\ n.billable = a.billable
               /\ n.duration = a.duration
               /\ last'.result.value = Some(n._id)
               /\ \A m \in Rows(notes) : m._id # n._id
      ]_vars

\* a second note was created, from a title with blanks around it
C8_Witness ==
    /\ last.op = "createNote"
    /\ last.result.kind = "ok"
    /\ Len(notes) = 2
    /\ last.args.title # Trim(last.args.title)

(* C9: a successful updateNote sets, on the note with the id, the fields   *)
(* that are present (title and content trimmed) and leaves the omitted     *)
(* fields, createdBy, createdAt, every other note and the users unchanged. *)
C9_PartialUpdate ==
    [][(Call({"updateNote"}) /\ last'.result.kind = "ok") =>
         /\ users' = users
         /\ Len(notes') = Len(notes)
         /\ \A i \in DOMAIN notes :
              LET o == notes[i]
                  n == notes'[i]
                  a == last'.args
              IN IF o._id # a.id THEN n = o
                 ELSE /\ n._id = o._id
                      /\ n.createdBy = o.createdBy
                      /\ n.createdAt = o.createdAt
                      /\ n.title = IF a.title = Undefined THEN o.title
                                   ELSE Trim(Get(a.title))
                      /\ n.content = IF a.content = Undefined THEN o.content
                                     ELSE Trim(Get(a.content))
                      /\ n.billable = IF a.billable = Undefined THEN o.billable
                                      ELSE Get(a.billable)
                      /\ n.duration = IF a.duration = Undefined THEN o.duration
                                      ELSE a.duration
                      /\ n.billStatus = IF a.billStatus = Undefined THEN o.billStatus
                                        ELSE Get(a.billStatus)
      ]_vars

\* billStatus alone was set on a note that keeps its duration, next to
\* another note
C9_Witness ==
    /\ last.op = "updateNote"
    /\ last.result.kind = "ok"
    /\ last.args.billStatus = Some("billed")
    /\ last.args.title = Undefined
    /\ last.args.duration = Undefined
    /\ Len(notes) = 2
    /\ \E n \in NotesWithId(last.args.id) : n.duration = Some(1440)

(* C10: after a successful users.store for a subject that had a row, the   *)
(* same call made again returns the same id and writes nothing.            *)
C10_StoreIdempotent ==
    [][(/\ Call({"store"})
        /\ last'.result.kind = "ok"
        /\ last'.identity # Undefined
        /\ UsersOf(last'.identity) # {})
       => \A t \in now' .. MaxNow :
            LET again == storeRun(DB', t, last'.identity)
            IN /\ again.result = last'.result
               /\ again.writes = <<>>
               /\ again.db = DB'
      ]_vars

\* a store call for a known subject corrected the name
C10_Witness ==
    /\ last.op = "store"
    /\ last.result.kind = "ok"
    /\ last.writes = <<"patch">>

\* the name users.store prefers: identity.name, else identity.email, else
\* the placeholder
NameWanted(id) ==
    IF id.name # Undefined THEN Get(id.name)
    ELSE IF id.email # Undefined THEN Get(id.email)
    ELSE "Unnamed User"

C12_FirstSight ==
    [][(/\ Call({"store"})
        /\ last'.identity # Undefined
        /\ UsersOf(last'.identity) = {})
       => LET id == Get(last'.identity)
              row == users'[Len(users')]
          IN /\ last'.result.kind = "ok"
             /\ Len(users') = Len(users) + 1
             /\ SubSeq(users', 1, Len(users)) = users
             /\ row.clerkId = id.subject
             /\ row.email = IF id.email # Undefined THEN Get(id.email)
                             ELSE "No email provided"
             /\ row.name = NameWanted(id)
             /\ row.createdAt = now
             /\ last'.result.value = Some(row._id)
             /\ \A t \in now' .. MaxNow :
                   storeRun(DB', t, last'.identity).writes = <<>>
      ]_vars

\* a caller without name and email was stored under the two placeholders
C12_Witness ==
    /\ last.op = "store"
    /\ last.writes = <<"insert">>
    /\ last.identity = Some(Identity("u2", Undefined, Undefined))
    /\ \E u \in UsersOf(last.identity) :
          u.name = "Unnamed User" /\ u.email = "No email provided"

\* the step is the write of a store call that did its lookup earlier
StoreWrites(c) == inflight[c] # Undefined /\ inflight'[c] = Undefined

\* what a lookup that never raises returns: the row of the caller if there
\* is exactly one, null otherwise
C13_Expected(identity) ==
    IF identity = Undefined THEN Undefined
    ELSE IF Cardinality(UsersOf(identity)) = 1 THEN UsersOf(identity)
    ELSE Undefined

(* C13: getCurrentUserOptional and users.getCurrentUser never raise and    *)
(* never write: they return null without identity, without a row and with  *)
(* several rows for the subject, and the row when there is exactly one.    *)
C13_ReadOnlyLookup ==
    /\ [](\A identity \in RaceIdentities :
            getCurrentUserOptional(DB, identity) = C13_Expected(identity))
    /\ [][Call({"getCurrentUser"})
           => /\ last'.result.kind = "ok"
              /\ last'.result.value = C13_Expected(last'.identity)
              /\ last'.writes = <<>>
              /\ users' = users
              /\ notes' = notes
         ]_vars

\* the lookup answered null for a subject that has two rows
C13_Witness ==
    /\ last.op = "getCurrentUser"
    /\ last.identity # Undefined
    /\ Cardinality(UsersOf(last.identity)) = 2
    /\ last.result = OkVoid

(* C14: when two or more users rows share the caller's clerkId, every      *)
(* function that looks the caller up on a write path - store, and every    *)
(* definition of createNote, updateNote and deleteNote - fails with         *)
(* IntegrityError and writes nothing.                                      *)
C14_LoudDuplicates ==
    [][(/\ Call({"store", "createNote", "createNoteOld", "updateNote", "deleteNote"})
        /\ inflight' = inflight
        /\ last'.identity # Undefined
        /\ Cardinality(UsersOf(last'.identity)) >= 2)
       => /\ FailedWith(last'.result, IntegrityError)
          /\ users' = users
          /\ notes' = notes
      ]_vars

(* C15: a store call that found no row for its subject inserts one when it *)
(* resumes, whatever the table holds by then: when another call for that   *)
(* subject has inserted in between, the subject ends with two rows.        *)
C15_Race ==
    [][\A c \in Calls :
         (StoreWrites(c) /\ Get(inflight[c]).user = Undefined)
         => /\ last'.result.kind = "ok"
            /\ last'.writes = <<"insert">>
            /\ Len(users') = Len(users) + 1
            /\ SubSeq(users', 1, Len(users)) = users
            /\ users'[Len(users')].clerkId = Get(inflight[c]).identity.subject
      ]_vars

\* two calls passed the lookup before either inserted: two rows, one subject
C15_Witness ==
    /\ last.op = "store"
    /\ last.writes = <<"insert">>
    /\ Len(users) = 2
    /\ users[1].clerkId = users[2].clerkId
    /\ \A c \in Calls : inflight[c] = Undefined

\* the call asks for the caller's own notes
OwnAsked(args) ==
    args.filters # Undefined /\ Get(args.filters).createdByCurrentUser = Some(TRUE)

\* the status the call asks for, if any
StatusAsked(args) ==
    IF args.filters = Undefined THEN Undefined ELSE Get(args.filters).billStatus

\* the notes of a set of owners that have the status asked for
NotesWanted(owners, status) ==
    {n \in Rows(notes) : /\ n.createdBy \in owners
                         /\ status # Undefined => n.billStatus = Get(status)}

\* the sequence holds each note of the set once and nothing else
Lists(seq, set) == Rows(seq) = set /\ Len(seq) = Cardinality(set)

(* C16: getNotes with createdByCurrentUser = true, called by a caller with *)
(* a users row u, returns exactly the notes created by u, and with         *)
(* billStatus = s exactly those of them whose billStatus is s.             *)
C16_OwnNotes ==
    [][(/\ Call({"getNotes"})
        /\ last'.identity # Undefined
        /\ OwnAsked(last'.args)
        /\ Cardinality(UsersOf(last'.identity)) = 1)
       => /\ last'.result.kind = "ok"
          /\ Lists(Get(last'.result.value),
                   NotesWanted({u._id : u \in UsersOf(last'.identity)},
                               StatusAsked(last'.args)))
      ]_vars

\* of the caller's open note, the caller's billed note and nobody else's,
\* the open one was returned
C16_Witness ==
    /\ last.op = "getNotes"
    /\ OwnAsked(last.args)
    /\ StatusAsked(last.args) = Some("open")
    /\ Len(notes) = 2
    /\ \A n \in Rows(notes) : \E u \in UsersOf(last.identity) : n.createdBy = u._id
    /\ last.result.kind = "ok"
    /\ Len(Get(last.result.value)) = 1

C18_UserIsolation ==
    [][(/\ Call({"getNotes"})
        /\ last'.identity # Undefined
        /\ last'.result.kind = "ok")
       => \A n \in Rows(Get(last'.result.value)) :
            \E u \in UsersOf(last'.identity) : n.createdBy = u._id
      ]_vars

(* C19: in each of the four branches of getNotes the notes come newest     *)
(* first: of two notes returned, the one created later stands earlier.     *)
C19_NewestFirst ==
    [][(Call({"getNotes"}) /\ last'.result.kind = "ok")
       => LET r == Get(last'.result.value) IN
          \A i, j \in DOMAIN r :
             i < j => r[i]._id > r[j]._id /\ r[i].createdAt >= r[j].createdAt
      ]_vars

\* two notes created at different times were returned, the later one first
C19_Witness ==
    /\ last.op = "getNotes"
    /\ last.result.kind = "ok"
    /\ Len(Get(last.result.value)) = 2
    /\ Get(last.result.value)[1].createdAt > Get(last.result.value)[2].createdAt

(* C20: getNotes with createdByCurrentUser = true, called by a signed-in   *)
(* caller whose subject has no users row or several, returns the empty     *)
(* sequence and no error, whatever the notes table holds.                  *)
C20_NoUserNoNotes ==
    [][(/\ Call({"getNotes"})
        /\ last'.identity # Undefined
        /\ OwnAsked(last'.args)
        /\ Cardinality(UsersOf(last'.identity)) # 1)
       => last'.result = Ok(<<>>)
      ]_vars

\* a caller with two users rows, one of which owns a note, was given nothing
C20_Witness ==
    /\ last.op = "getNotes"
    /\ last.identity # Undefined
    /\ OwnAsked(last.args)
    /\ Cardinality(UsersOf(last.identity)) = 2
    /\ \E n \in Rows(notes) : \E u \in UsersOf(last.identity) : n.createdBy = u._id
    /\ last.result = Ok(<<>>)

----------------------------------------------------------------------------
\* the ids of the notes that were deleted: given out, and no longer stored
Deleted == {id \in 1 .. noteIds : NotesWithId(id) = {}}

\* the ids that no note ever had
NeverExisted == {id \in NoteIds : id > noteIds}

\* the caller has a resolved User: one users row carries the subject
Resolved(identity) ==
    identity # Undefined /\ Cardinality(UsersOf(identity)) = 1

(* C21: deleteNote by the owner removes the note with the given id and     *)
(* nothing else, and leaves users as it is; a deleted note never comes     *)
(* back, is in no later getNotes result, and every later updateNote or     *)
(* deleteNote on its id by a caller with a resolved User fails with        *)
(* NotFound, as does one on an id that no note ever had.                   *)
C21_DeleteIsFinal ==
    [][/\ (Call({"deleteNote"}) /\ C3_OwnerCall(last'.identity, last'.args.id))
          => /\ last'.result.kind = "ok"
             /\ notes' = Where(notes, {n \in Rows(notes) : n._id # last'.args.id})
             /\ Len(notes') = Len(notes) - 1
             /\ users' = users
       /\ \A id \in Deleted : id \in Deleted'
       /\ (Call({"getNotes"}) /\ last'.result.kind = "ok")
          => \A n \in Rows(Get(last'.result.value)) : n._id \notin Deleted
       /\ (Call({"updateNote", "deleteNote"})
           /\ Resolved(last'.identity)
           /\ last'.args.id \in Deleted \cup NeverExisted)
          => FailedWith(last'.result, NotFound) /\ notes' = notes
      ]_vars

\* after a note was deleted and another created, an update of the deleted
\* one by a caller with a User row was refused
C21_Witness ==
    /\ last.op = "updateNote"
    /\ last.args.id \in Deleted
    /\ Resolved(last.identity)
    /\ FailedWith(last.result, NotFound)
    /\ notes # <<>>

----------------------------------------------------------------------------
(* C22: createNote, getNotes, updateNote, deleteNote and getCurrentUser    *)
(* leave the users table as it is; no step removes a users row or changes  *)
(* a row's clerkId or createdAt; and store called for a subject leaves     *)
(* every row of another subject as it is.                                  *)
C22_UsersFrame ==
    [][/\ Call({"createNote", "getNotes", "updateNote", "deleteNote",
                "getCurrentUser"}) => users' = users
       /\ Len(users') >= Len(users)
       /\ \A i \in DOMAIN users :
            /\ users'[i]._id = users[i]._id
            /\ users'[i].clerkId = users[i].clerkId
            /\ users'[i].createdAt = users[i].createdAt
       /\ (Call({"store"}) /\ last'.identity # Undefined)
          => \A i \in DOMAIN users :
               users[i].clerkId # Get(last'.identity).subject
                 => users'[i] = users[i]
      ]_vars

\* store has renamed the second row of the table, which was inserted at a
\* later time than the first
C22_Witness ==
    /\ last.op = "store"
    /\ last.writes = <<"patch">>
    /\ Len(users) = 2
    /\ last.result = Ok(2)
    /\ users[2].createdAt > users[1].createdAt
    /\ notes # <<>>

----------------------------------------------------------------------------
\* the rows of a notes table with an id
StoredWithId(table, id) ==
    {table[i] : i \in {j \in DOMAIN table : table[j]._id = id}}

(* C23, as claimed: the result of a successful updateNote is the note with *)
(* the given id as it is stored after the patch.                           *)
C23_ReturnsUpdatedNote ==
    [][(Call({"updateNote"}) /\ last'.result.kind = "ok")
       => last'.result.value = StoredWithId(notes', last'.args.id)]_vars

(* C23, amended: a successful updateNote returns no value, what            *)
(* ctx.db.patch resolves to; the note with the given id is stored once     *)
(* after the patch and carries the fields that were given, title and       *)
(* content trimmed.                                                        *)
C23_ReturnsNothing ==
    [][(Call({"updateNote"}) /\ last'.result.kind = "ok")
       => /\ last'.result.value = Undefined
          /\ Cardinality(StoredWithId(notes', last'.args.id)) = 1
          /\ \A n \in StoredWithId(notes', last'.args.id) :
               /\ last'.args.title # Undefined
                    => n.title = Trim(Get(last'.args.title))
               /\ last'.args.content # Undefined
                    => n.content = Trim(Get(last'.args.content))
               /\ last'.args.billable # Undefined
                    => n.billable = Get(last'.args.billable)
               /\ last'.args.duration # Undefined
                    => n.duration = last'.args.duration
               /\ last'.args.billStatus # Undefined
                    => n.billStatus = Get(last'.args.billStatus)
      ]_vars

\* an update of title and status has gone through and returned nothing
C23_Witness ==
    /\ last.op = "updateNote"
    /\ last.result = OkVoid
    /\ last.writes = <<"patch">>
    /\ last.args.title # Undefined
    /\ last.args.billStatus # Undefined
    /\ \E n \in NotesWithId(last.args.id) :
         n.title = Trim(Get(last.args.title)) /\ n.billStatus = "billed"

----------------------------------------------------------------------------
(* C27: in every state reached by calls of createNote and updateNote, each *)
(* stored note has a title equal to its own trim, 1 to 200 characters      *)
(* long, a content equal to its own trim, 1 to 5000 characters long, a     *)
(* duration that is absent or between 0 and 1440, and a billStatus among   *)
(* open, billed and canceled.                                              *)
C27_StoredNotesValid ==
    \A n \in Rows(notes) :
        /\ n.title = Trim(n.title)
        /\ Length(n.title) >= 1 /\ Length(n.title) <= 200
        /\ n.content = Trim(n.content)
        /\ Length(n.content) >= 1 /\ Length(n.content) <= 5000
        /\ n.duration = Undefined \/ (Get(n.duration) >= 0 /\ Get(n.duration) <= 1440)
        /\ n.billStatus \in {"open", "billed", "canceled"}

\* a note created from a padded title stands next to one that an update
\* has taken to the upper bound of every field
C27_Witness ==
    /\ last.op = "updateNote"
    /\ last.result.kind = "ok"
    /\ \E n \in Rows(notes) :
         /\ Length(n.title) = 200
         /\ Length(n.content) = 5000
         /\ n.duration = Some(1440)
         /\ n.billStatus = "billed"
    /\ \E n \in Rows(notes) :
         /\ Length(n.title) = 2
         /\ n.duration = Undefined
         /\ n.billStatus = "open"

----------------------------------------------------------------------------
\* the errors that the resolution of the caller's user ends in
UserResolution == UserNotFound \cup IntegrityError

\* the fields of the call that are validated are all valid; deleteNote has
\* none
ValidFields(op, args) == op = "deleteNote" \/ ValidUpdate(args)

(* C28: updateNote and deleteNote check, in this order, authentication,    *)
(* the caller's user, the existence of the note, its ownership and the     *)
(* fields, and the first check that fails decides the error: a caller      *)
(* without a users row gets the error of user resolution whatever the      *)
(* note id, and a caller who is not the owner gets Forbidden whatever the  *)
(* fields.                                                                 *)
C28_ErrorPrecedence ==
    [][Call({"updateNote", "deleteNote"}) =>
         IF last'.identity = Undefined
         THEN FailedWith(last'.result, AuthRequired)
         ELSE IF ~Resolved(last'.identity)
         THEN FailedWith(last'.result, UserResolution)
         ELSE IF NotesWithId(last'.args.id) = {}
         THEN FailedWith(last'.result, NotFound)
         ELSE IF C3_Stranger(last'.identity, last'.args.id)
         THEN FailedWith(last'.result, Forbidden)
         ELSE IF ~ValidFields(last'.op, last'.args)
         THEN FailedWith(last'.result, ValidationError)
         ELSE last'.result.kind = "ok"
      ]_vars

\* a caller who is not the owner sent a title of 201 characters and was
\* told that the note is not theirs
C28_Witness ==
    /\ last.op = "updateNote"
    /\ FailedWith(last.result, Forbidden)
    /\ last.args.title # Undefined
    /\ ~ValidTitleArg(Get(last.args.title))
    /\ C3_Stranger(last.identity, last.args.id)

----------------------------------------------------------------------------
\* the subjects that two or more users rows carry
DupSubjects == {s \in Subjects : Cardinality(ByClerkId(DB, s)) >= 2}

\* the ids of the users rows of a subject
RowIdsOf(s) == {u._id : u \in ByClerkId(DB, s)}

\* the caller of the step's call carries subject s
CalledBy(s) ==
    Called /\ last'.identity # Undefined /\ Get(last'.identity).subject = s

(* C29: once two or more users rows carry subject S, every later state has *)
(* two or more; a call of store for S that starts from then on does not    *)
(* get past its lookup, fails and writes nothing; createNote, updateNote   *)
(* and deleteNote by S fail and write nothing; getCurrentUser for S        *)
(* returns null; and a note owned by one of the duplicate rows stays as it *)
(* is, every updateNote or deleteNote on it failing, whoever calls.        *)
C29_DuplicateIsPermanent ==
    [][\A s \in DupSubjects :
         /\ s \in DupSubjects'
         /\ \A c \in Calls :
              (inflight'[c] # inflight[c] /\ inflight'[c] # Undefined)
                => Get(inflight'[c]).identity.subject # s
         /\ (CalledBy(s) /\ last'.op = "store" /\ inflight' = inflight)
            => Failed(last'.result) /\ users' = users
         /\ (CalledBy(s) /\ last'.op \in {"createNote", "updateNote", "deleteNote"})
            => Failed(last'.result) /\ users' = users /\ notes' = notes
         /\ (CalledBy(s) /\ last'.op = "getCurrentUser")
            => last'.result = OkVoid
         /\ \A n \in Rows(notes) :
              n.createdBy \in RowIdsOf(s) =>
                /\ n \in Rows(notes')
                /\ (Call({"updateNote", "deleteNote"}) /\ last'.args.id = n._id)
                   => Failed(last'.result)
      ]_vars

\* the owner of a note has two users rows, and the update of the note that
\* the owner asked for was refused
C29_Witness ==
    /\ DupSubjects # {}
    /\ last.op = "updateNote"
    /\ Failed(last.result)
    /\ last.identity # Undefined
    /\ Get(last.identity).subject \in DupSubjects
    /\ \E n \in NotesWithId(last.args.id) :
         n.createdBy \in RowIdsOf(Get(last.identity).subject)

----------------------------------------------------------------------------
\* run r has ended in the catch block in this step
Fails(r) == runs[r].pc # "failed" /\ runs'[r].pc = "failed"

\* every run that was started has ended
AllFinished == started >= 1 /\ \A r \in Runs : ~Pending(runs[r])

\* both refs of Clerk are loaded
ClerkLoaded == clerk.clerkIsLoaded /\ clerk.sessionIsLoaded

(* C24: when getToken gives a run of updateAuth no token, the run does not *)
(* end in the catch block, authError is left as it is, and the credentials *)
(* of the Convex client are left as they are or cleared.                   *)
C24_TokenAbsenceTolerated ==
    [][\A r \in Runs :
         (runs[r].token = "pending" /\ runs'[r].token = "null")
           => /\ ~Fails(r)
              /\ authError' = authError
              /\ convexAuth' \in {convexAuth, Cleared}
      ]_vars

(* C25: while Clerk holds a user and a session, the children are rendered  *)
(* (isReady is true and authError is null) only if the token of that user  *)
(* is installed in the Convex client and a storeUser call made with it has *)
(* resolved.                                                               *)
C25_SyncBeforeUse ==
    (/\ clerk.user # Undefined
     /\ clerk.session # Undefined
     /\ isReady
     /\ authError = Undefined)
    => /\ convexAuth = Token(Get(clerk.user))
       /\ clerk.user \subseteq synced

(* C26: a run of updateAuth that ends in failure leaves the error panel    *)
(* with the Retry button as the rendered branch and starts no run by       *)
(* itself; a run that starts while Clerk has not changed is started by a   *)
(* click on Retry and is the only one that click starts.                   *)
C26_RetryAffordance ==
    [][/\ (\E r \in Runs : Fails(r))
          => Rendered' = "error" /\ started' = started
       /\ (clerk' = clerk /\ started' # started)
          => Rendered = "error" /\ started' = started + 1
      ]_vars

(* C30: once every run of updateAuth has ended, isReady is false if Clerk  *)
(* is not loaded, the credentials are the cleared ones if Clerk is loaded  *)
(* and nobody is signed in, and authError is set only if the run that was  *)
(* started last has failed.                                                *)
C30_LatestRunWins ==
    AllFinished =>
      /\ ~ClerkLoaded => ~isReady
      /\ (ClerkLoaded /\ (clerk.user = Undefined \/ clerk.session = Undefined))
         => convexAuth = Cleared
      /\ authError # Undefined => runs[started].pc = "failed"

====
